---------------------------- MODULE Spec2Model ----------------------------
(***************************************************************************)
(* Submission-intake service of src/main.py: POST /submit stores a row in  *)
(* the submission table, writes the code to codes/{id}.py and answers with *)
(* the id; two exception handlers are registered for 404 and 500.          *)
(*                                                                         *)
(* Requests are processes.  The endpoint is an `async def` whose body has  *)
(* no await: from its first line to its return or raise it holds the       *)
(* event loop (variable running).  The session dependency get_db is a      *)
(* plain generator, which the framework runs on a worker thread.           *)
(***************************************************************************)
EXTENDS Integers, Sequences, FiniteSets, TLC

\* Number of requests the server receives in one run.
MaxRequests == 2

Requests == 1..MaxRequests

\* Characters of the texts besides letters: line feed, carriage return.
LF == "LF"
CR == "CR"

\* os.linesep of the platform the service runs on (POSIX, Windows).
LineSeps == {<<LF>>, <<CR, LF>>}

\* Request inputs.
Usernames == {<<>>, <<"u">>}
Passwords == {<<>>, <<"p">>}
Codes == {<<>>, <<CR, LF>>}
Routes == {"/submit", "/other"}

\* A JSON body field: omitted, or given with a value.
Field(vals) ==
    {[given |-> FALSE, val |-> <<>>]} \cup {[given |-> TRUE, val |-> v] : v \in vals}

\* A field that is omitted or empty.
Defective(f) == ~f.given \/ f.val = <<>>

\* The JSON bodies a client posts against SubmissionCreate: all fields good,
\* or one of them omitted or empty.
Bodies ==
    {b \in [username : Field(Usernames), password : Field(Passwords), code : Field(Codes)] :
        Cardinality({f \in {"username", "password", "code"} : Defective(b[f])}) <= 1}

NoBody == [username |-> [given |-> FALSE, val |-> <<>>],
           password |-> [given |-> FALSE, val |-> <<>>],
           code |-> [given |-> FALSE, val |-> <<>>]]

VARIABLES
    pc,         \* pc[r]: where request r is
    req,        \* req[r]: [route, body] of request r
    session,    \* session[r]: the Session object r's handling got (0: none)
    sessions,   \* the Session objects that are open
    rows,       \* the submission table: id -> row
    files,      \* the directory codes/: id -> bytes of codes/{id}.py
    written,    \* written[id]: how many times code_file.write ran on codes/{id}.py
    dbid,       \* dbid[r]: db_submission.id in r's handler (0: not set)
    outcome,    \* outcome[r]: what r's handling returned or raised
    resp,       \* resp[r]: the response the client of r received
    running,    \* the request whose handler holds the event loop
    linesep     \* os.linesep

vars == <<pc, req, session, sessions, rows, files, written, dbid,
          outcome, resp, running, linesep>>

-----------------------------------------------------------------------------
(* Values *)

NoOutcome == [kind |-> "none", status |-> 0, detail |-> "", at |-> "", id |-> 0]

\* `return {"reservation_id": db_submission.id}`
Returned(id) == [kind |-> "return", status |-> 0, detail |-> "", at |-> "", id |-> id]

\* `raise HTTPException(status_code=..., detail=...)`
HTTPException(status, detail) ==
    [kind |-> "HTTPException", status |-> status, detail |-> detail, at |-> "", id |-> 0]

\* The framework's error for a body that does not fit SubmissionCreate.
RequestValidationError ==
    [kind |-> "RequestValidationError", status |-> 0, detail |-> "", at |-> "", id |-> 0]

\* An exception of the storage or the file system, raised at step `at`.
Raised(at) == [kind |-> "Exception", status |-> 0, detail |-> "", at |-> at, id |-> 0]

NoResponse == [status |-> 0, media |-> "", key |-> "", text |-> "", id |-> 0]

\* A JSON response {key: text-or-id} with a status code.
JSONResponse(status, key, text, id) ==
    [status |-> status, media |-> "application/json", key |-> key, text |-> text, id |-> id]

\* The server's own answer when the application raised: 500, plain text.
PlainServerError ==
    [status |-> 500, media |-> "text/plain", key |-> "", text |-> "Internal Server Error",
     id |-> 0]

RECURSIVE TextWrite(_, _)
\* What a text-mode file (open(path, "w"), newline=None) stores for the
\* string s: every line feed becomes os.linesep, the rest is kept.
TextWrite(s, sep) ==
    IF s = <<>> THEN <<>>
    ELSE (IF Head(s) = LF THEN sep ELSE <<Head(s)>>) \o TextWrite(Tail(s), sep)

\* The prefixes of a byte sequence: what a write that raised may have left
\* in the file (nothing when the text could not be encoded, a part when the
\* disk ran full, all of it when only the close reported the error).
Prefixes(bytes) == {SubSeq(bytes, 1, n) : n \in 0..Len(bytes)}

Max(S) == CHOOSE m \in S : \A n \in S : n <= m

\* Mutant of NewId: the largest id in use is taken again.
NewId_Reused == IF DOMAIN rows = {} THEN 1 ELSE Max(DOMAIN rows)

\* The id SQLite gives the next row of an INTEGER PRIMARY KEY table.
NewId == IF DOMAIN rows = {} THEN 1 ELSE Max(DOMAIN rows) + 1

\* Fields of SubmissionCreate, all required.
Missing(body) == ~body.username.given \/ ~body.password.given \/ ~body.code.given

\* `not submission.username or not submission.password or not submission.code`
Empty(body) ==
    body.username.val = <<>> \/ body.password.val = <<>> \/ body.code.val = <<>>

-----------------------------------------------------------------------------
(* Exception handlers and the framework's dispatch to them *)

\* custom_404_handler returns a dict, not a Response object.
custom_404_handler ==
    [isResponse |-> FALSE, status |-> 0, key |-> "error", text |-> "Not Found"]

\* custom_500_handler returns a dict, not a Response object.
custom_500_handler ==
    [isResponse |-> FALSE, status |-> 0, key |-> "error", text |-> "Internal Server Error"]

\* The framework calls what an exception handler returned as a Response:
\* `await response(scope, receive, send)`.  A dict is not callable, which
\* raises TypeError; `otherwise` is what the client then gets.
SendHandlerResult(h, otherwise) ==
    IF h.isResponse THEN JSONResponse(h.status, h.key, h.text, 0) ELSE otherwise

\* An exception that reached the server-error layer: the handler registered
\* for 500 is called; if sending its result raises, the server answers itself.
ServerError == SendHandlerResult(custom_500_handler, PlainServerError)

\* An HTTPException: the handler registered for its status code (404 only),
\* else the framework's default handler, {"detail": ...} with that status.
HandleHTTPException(o) ==
    IF o.status = 404
    THEN SendHandlerResult(custom_404_handler, ServerError)
    ELSE JSONResponse(o.status, "detail", o.detail, 0)

\* The response the client receives for an outcome of the request handling.
Response(o) ==
    CASE o.kind = "return" -> JSONResponse(200, "reservation_id", "", o.id)
      [] o.kind = "HTTPException" -> HandleHTTPException(o)
      [] o.kind = "RequestValidationError" -> JSONResponse(422, "detail", "Field required", 0)
      [] OTHER -> ServerError

-----------------------------------------------------------------------------
(* State *)

Init ==
    /\ pc = [r \in Requests |-> "idle"]
    /\ req = [r \in Requests |-> [route |-> "", body |-> NoBody]]
    /\ session = [r \in Requests |-> 0]
    /\ sessions = {}
    /\ rows = <<>>
    /\ files = <<>>
    /\ written = <<>>
    /\ dbid = [r \in Requests |-> 0]
    /\ outcome = [r \in Requests |-> NoOutcome]
    /\ resp = [r \in Requests |-> NoResponse]
    /\ running = 0
    /\ linesep \in LineSeps

\* f with key k set to v, k added to the domain if new.
Put(f, k, v) == [x \in DOMAIN f \cup {k} |-> IF x = k THEN v ELSE f[x]]

Count(id) == IF id \in DOMAIN written THEN written[id] ELSE 0

\* The event loop takes request r (requests are numbered as they are taken)
\* and routes it: an unmatched route raises HTTPException(404); its body is
\* never read.
Receive(r, route, body) ==
    /\ running = 0
    /\ pc[r] = "idle"
    /\ \A q \in Requests : q < r => pc[q] # "idle"
    /\ IF route = "/submit" THEN body \in Bodies ELSE body = NoBody
    /\ req' = [req EXCEPT ![r] = [route |-> route, body |-> body]]
    /\ IF route = "/submit"
       THEN /\ pc' = [pc EXCEPT ![r] = "deps"]
            /\ UNCHANGED outcome
       ELSE /\ pc' = [pc EXCEPT ![r] = "respond"]
            /\ outcome' = [outcome EXCEPT ![r] = HTTPException(404, "Not Found")]
    /\ UNCHANGED <<session, sessions, rows, files, written, dbid, resp,
                   running, linesep>>

\* SessionLocal(): a new Session object on every call, here named by the
\* request whose get_db call constructed it.
SessionLocal(r) == r

\* get_db up to its yield: `db = SessionLocal()`; db is handed to r's handler.
get_db_enter(r) ==
    /\ pc[r] = "deps"
    /\ session' = [session EXCEPT ![r] = SessionLocal(r)]
    /\ sessions' = sessions \cup {SessionLocal(r)}
    /\ pc' = [pc EXCEPT ![r] = "ready"]
    /\ UNCHANGED <<req, rows, files, written, dbid, outcome, resp, running, linesep>>

\* The body is parsed into SubmissionCreate and create_submission is called:
\* a missing field is the framework's 422, an empty one the handler's 400,
\* else the handler goes on, holding the event loop.
create_submission_check(r) ==
    /\ running = 0
    /\ pc[r] = "ready"
    /\ \/ /\ Missing(req[r].body)
          /\ outcome' = [outcome EXCEPT ![r] = RequestValidationError]
          /\ pc' = [pc EXCEPT ![r] = "exit"]
          /\ UNCHANGED running
       \/ /\ ~Missing(req[r].body)
          /\ Empty(req[r].body)
          /\ outcome' = [outcome EXCEPT ![r] = HTTPException(400, "Missing required fields")]
          /\ pc' = [pc EXCEPT ![r] = "exit"]
          /\ UNCHANGED running
       \/ /\ ~Missing(req[r].body)
          /\ ~Empty(req[r].body)
          /\ running' = r
          /\ pc' = [pc EXCEPT ![r] = "commit"]
          /\ UNCHANGED outcome
    /\ UNCHANGED <<req, session, sessions, rows, files, written, dbid, resp,
                   linesep>>

\* The handler leaves by raising at step `at`: the event loop is free again.
Raise(r, at) ==
    /\ outcome' = [outcome EXCEPT ![r] = Raised(at)]
    /\ pc' = [pc EXCEPT ![r] = "exit"]
    /\ running' = 0

\* db.add, db.commit, db.refresh: the row is stored under a new id, which
\* db_submission.id then holds; or the storage fails and nothing is stored.
create_submission_commit(r) ==
    /\ running = r
    /\ pc[r] = "commit"
    /\ \/ /\ rows' = Put(rows, NewId, [username |-> req[r].body.username.val,
                                       password |-> req[r].body.password.val,
                                       status |-> "SUBMITTED"])
          /\ dbid' = [dbid EXCEPT ![r] = NewId]
          /\ pc' = [pc EXCEPT ![r] = "open"]
          /\ UNCHANGED <<outcome, running>>
       \/ /\ Raise(r, "commit")
          /\ UNCHANGED <<rows, dbid>>
    /\ UNCHANGED <<req, session, sessions, files, written, resp, linesep>>

\* Mutant of create_submission_open: a failed open rolls the insert back.
create_submission_open_rollback(r) ==
    /\ running = r
    /\ pc[r] = "open"
    /\ \/ /\ files' = Put(files, dbid[r], <<>>)
          /\ pc' = [pc EXCEPT ![r] = "write"]
          /\ UNCHANGED <<outcome, running, rows>>
       \/ /\ Raise(r, "open")
          /\ rows' = [id \in DOMAIN rows \ {dbid[r]} |-> rows[id]]
          /\ UNCHANGED files
    /\ UNCHANGED <<req, session, sessions, written, dbid, resp, linesep>>

\* open(f"codes/{db_submission.id}.py", "w"): the file is created or
\* truncated; or the open fails (no directory, no permission).
create_submission_open(r) ==
    /\ running = r
    /\ pc[r] = "open"
    /\ \/ /\ files' = Put(files, dbid[r], <<>>)
          /\ pc' = [pc EXCEPT ![r] = "write"]
          /\ UNCHANGED <<outcome, running>>
       \/ /\ Raise(r, "open")
          /\ UNCHANGED files
    /\ UNCHANGED <<req, session, sessions, rows, written, dbid, resp, linesep>>

\* code_file.write(submission.code) and the close of the with block; or the
\* write fails (the text cannot be encoded, the disk is full) and the file
\* keeps what reached it.
create_submission_write(r) ==
    /\ running = r
    /\ pc[r] = "write"
    /\ written' = Put(written, dbid[r], Count(dbid[r]) + 1)
    /\ \/ /\ files' = Put(files, dbid[r], TextWrite(req[r].body.code.val, linesep))
          /\ pc' = [pc EXCEPT ![r] = "return"]
          /\ UNCHANGED <<outcome, running>>
       \/ /\ \E part \in Prefixes(TextWrite(req[r].body.code.val, linesep)) :
                files' = Put(files, dbid[r], part)
          /\ Raise(r, "write")
    /\ UNCHANGED <<req, session, sessions, rows, dbid, resp, linesep>>

\* return {"reservation_id": db_submission.id}
create_submission_return(r) ==
    /\ running = r
    /\ pc[r] = "return"
    /\ outcome' = [outcome EXCEPT ![r] = Returned(dbid[r])]
    /\ pc' = [pc EXCEPT ![r] = "exit"]
    /\ running' = 0
    /\ UNCHANGED <<req, session, sessions, rows, files, written, dbid, resp,
                   linesep>>

\* Mutant of get_db_exit: db.close() after the yield without try/finally,
\* so that it runs only when the handling raised nothing.
get_db_exit_no_finally(r) ==
    /\ pc[r] = "exit"
    /\ sessions' = IF outcome[r].kind = "return" THEN sessions \ {session[r]} ELSE sessions
    /\ pc' = [pc EXCEPT ![r] = "respond"]
    /\ UNCHANGED <<req, session, rows, files, written, dbid, outcome, resp,
                   running, linesep>>

\* get_db after its yield: `finally: db.close()`, whatever the handling did.
get_db_exit(r) ==
    /\ pc[r] = "exit"
    /\ sessions' = sessions \ {session[r]}
    /\ pc' = [pc EXCEPT ![r] = "respond"]
    /\ UNCHANGED <<req, session, rows, files, written, dbid, outcome, resp,
                   running, linesep>>

\* The response for the outcome is sent to the client.
Respond(r) ==
    /\ running = 0
    /\ pc[r] = "respond"
    /\ resp' = [resp EXCEPT ![r] = Response(outcome[r])]
    /\ pc' = [pc EXCEPT ![r] = "done"]
    /\ UNCHANGED <<req, session, sessions, rows, files, written, dbid,
                   outcome, running, linesep>>

Next ==
    \E r \in Requests :
        \/ \E route \in Routes, body \in Bodies \cup {NoBody} : Receive(r, route, body)
        \/ get_db_enter(r)
        \/ create_submission_check(r)
        \/ create_submission_commit(r)
        \/ create_submission_open(r)
        \/ create_submission_write(r)
        \/ create_submission_return(r)
        \/ get_db_exit(r)
        \/ Respond(r)

Spec == Init /\ [][Next]_vars

-----------------------------------------------------------------------------
(* Properties *)

Done(r) == pc[r] = "done"

Submit(r) == req[r].route = "/submit"

\* r posted username, password and code, all non-empty.
Valid(r) == Submit(r) /\ ~Missing(req[r].body) /\ ~Empty(req[r].body)

\* r's handler raised a storage or file-system exception.
Faulted(r) == outcome[r].kind = "Exception"

\* r's handler is between its first line and its return.
InHandler(r) == pc[r] \in {"commit", "open", "write", "return"}

\* codes/{id}.py exists and holds exactly the characters of r's code.
HoldsCode(id, r) == id \in DOMAIN files /\ files[id] = req[r].body.code.val

\* C1: a finished valid submission that met no storage or file fault was
\* answered 200 with the id of the one row it inserted, and codes/{id}.py
\* holds its code exactly.
C1_StoredExactly ==
    \A r \in Requests :
        (Done(r) /\ Valid(r) /\ ~Faulted(r)) =>
            /\ resp[r].status = 200
            /\ resp[r].key = "reservation_id"
            /\ resp[r].id = dbid[r]
            /\ resp[r].id \in DOMAIN rows
            /\ \A q \in Requests \ {r} : dbid[q] # resp[r].id
            /\ HoldsCode(resp[r].id, r)

\* C2: a finished submission with a field omitted or empty was answered 400
\* "Missing required fields", inserted no row and wrote no file.
C2_Rejected400 ==
    \A r \in Requests :
        (Done(r) /\ Submit(r) /\ ~Valid(r)) =>
            /\ resp[r] = JSONResponse(400, "detail", "Missing required fields", 0)
            /\ dbid[r] = 0
            /\ Cardinality(DOMAIN rows) = Cardinality({q \in Requests : dbid[q] # 0})
            /\ DOMAIN files \subseteq {dbid[q] : q \in Requests}

\* C3: two submissions that were both answered 200 have distinct ids, and
\* the file of each holds its own code.
C3_DistinctIdsOwnFiles ==
    \A a, b \in Requests :
        (a # b /\ resp[a].status = 200 /\ resp[b].status = 200) =>
            /\ resp[a].id # resp[b].id
            /\ HoldsCode(resp[a].id, a)
            /\ HoldsCode(resp[b].id, b)

\* C4 as claimed: after a failed file open or write the row is in the table
\* and no file codes/{id}.py exists.
C4_RowAndNoFile ==
    \A r \in Requests :
        (Faulted(r) /\ outcome[r].at \in {"open", "write"}) =>
            /\ dbid[r] \in DOMAIN rows
            /\ dbid[r] \notin DOMAIN files

\* C4 as amended: after a failed file open or write the row stays in the
\* table as inserted; a failed open leaves no file, a failed write leaves
\* the file the open created, holding a prefix of the text written.
C4_RowKeptFileIncomplete ==
    \A r \in Requests :
        (Faulted(r) /\ outcome[r].at \in {"open", "write"}) =>
            /\ dbid[r] \in DOMAIN rows
            /\ rows[dbid[r]].username = req[r].body.username.val
            /\ rows[dbid[r]].password = req[r].body.password.val
            /\ outcome[r].at = "open" => dbid[r] \notin DOMAIN files
            /\ outcome[r].at = "write" =>
                  /\ dbid[r] \in DOMAIN files
                  /\ files[dbid[r]] \in Prefixes(TextWrite(req[r].body.code.val, linesep))

\* Both file failures have happened and their requests are finished.
C4_Witness ==
    \E a, b \in Requests :
        /\ Done(a) /\ Faulted(a) /\ outcome[a].at = "open"
        /\ Done(b) /\ Faulted(b) /\ outcome[b].at = "write"
        /\ dbid[b] \in DOMAIN files

\* C5: a finished request for an unknown route was answered 404 with the
\* body {"error": "Not Found"}.
C5_NotFoundBody ==
    \A r \in Requests :
        (Done(r) /\ ~Submit(r)) => resp[r] = JSONResponse(404, "error", "Not Found", 0)

\* C6: a finished submission whose commit, file open or file write raised
\* was answered 500 with the body {"error": "Internal Server Error"}.
C6_ServerErrorBody ==
    \A r \in Requests :
        (Done(r) /\ Faulted(r)) =>
            resp[r] = JSONResponse(500, "error", "Internal Server Error", 0)

\* C7: every submission has a session of its own, open from before its
\* handler is called until the handling is over, and closed once the
\* request is finished, whatever the outcome.
C7_SessionPerRequest ==
    /\ \A r \in Requests :
          /\ (pc[r] = "ready" \/ InHandler(r) \/ pc[r] = "exit") => session[r] \in sessions
          /\ (Done(r) /\ Submit(r)) => session[r] # 0
          /\ Done(r) => session[r] \notin sessions
    /\ \A a, b \in Requests :
          (a # b /\ session[a] # 0) => session[a] # session[b]
    /\ (\A r \in Requests : Done(r)) => sessions = {}

\* Every request is finished, with all four outcomes of a submission among
\* them or, with fewer requests, a 200 and a fault.
C7_Witness ==
    /\ \A r \in Requests : Done(r)
    /\ \E a, b \in Requests :
          /\ resp[a].status = 200
          /\ Faulted(b)
          /\ session[a] # 0 /\ session[b] # 0

\* C8: while one submission is inside its commit or its file write, another
\* one whose session is ready can enter its handler.
C8_OthersProgress ==
    \A a, b \in Requests :
        (a # b /\ pc[a] \in {"commit", "open", "write"} /\ pc[b] = "ready") =>
            ENABLED create_submission_check(b)

\* C9 as claimed: every row of a finished submission has its file, written
\* exactly once.
C9_EveryRowHasFile ==
    \A r \in Requests :
        (Done(r) /\ dbid[r] # 0) => (dbid[r] \in DOMAIN files /\ Count(dbid[r]) = 1)

\* C9 as amended: a file codes/{id}.py exists or is written only once the
\* row with that id is committed, no file is written twice, and the row of
\* a submission that returned has its file, written exactly once.
C9_FileOnlyAfterCommit ==
    /\ \A id \in DOMAIN files \cup DOMAIN written :
          /\ id \in DOMAIN rows
          /\ \E r \in Requests : dbid[r] = id
          /\ Count(id) <= 1
    /\ \A r \in Requests :
          outcome[r].kind = "return" => (dbid[r] \in DOMAIN files /\ Count(dbid[r]) = 1)

\* Two rows are committed, one with its file written, one left without.
C9_Witness ==
    \E a, b \in Requests :
        /\ Done(a) /\ outcome[a].kind = "return" /\ Count(dbid[a]) = 1
        /\ Done(b) /\ dbid[b] # 0 /\ dbid[b] \notin DOMAIN files

\* C10: whoever was answered 200 with id r has row r in the table and a
\* file codes/r.py that holds exactly the code of that request.
C10_OkMeansStored ==
    \A r \in Requests :
        resp[r].status = 200 =>
            /\ resp[r].id \in DOMAIN rows
            /\ rows[resp[r].id].username = req[r].body.username.val
            /\ HoldsCode(resp[r].id, r)

=============================================================================
